---- MODULE Spec2Model ----
(***************************************************************************)
(* Shift-trade validation and candidate matching of app.py: the schedule   *)
(* builder, the swap simulator (availability, rest rule, weekly cap) and    *)
(* the two trade endpoints, over a small pool of calendar events.           *)
(*                                                                          *)
(* Instants are seconds since 2026-10-26T00:00:00Z (a Monday).  The         *)
(* operative timezone is America/New_York: UTC-4 until 2026-11-01T06:00Z,   *)
(* UTC-5 from then on (the end of daylight saving time).                    *)
(***************************************************************************)
EXTENDS Integers, Sequences, FiniteSets, TLC

VARIABLES calendars, now, cache, resp, calls, passes

vars == <<calendars, now, cache, resp, calls, passes>>

(***************************************************************************)
(* Bounds of the model.                                                     *)
(***************************************************************************)
MaxShifts == 3

(***************************************************************************)
(* Time.                                                                    *)
(***************************************************************************)
Minute == 60
Hour == 3600
Day == 86400

\* pytz America/New_York, inside the modelled fortnight: EDT before the
\* transition of Sunday 2026-11-01 06:00Z, EST from it.
DstEnd == 540000
EdtOffset == -14400
EstOffset == -18000

UtcOffset(t) == IF t < DstEnd THEN EdtOffset ELSE EstOffset

\* round_to_minute: seconds (and microseconds) dropped.
round_to_minute(t) == t - (t % Minute)

\* to_eastern on a timezone-aware timestamp: the same instant, in the zone,
\* rounded down to the minute.
to_eastern(t) == round_to_minute(t)

\* iso(dt): the text "YYYY-MM-DDTHH:MM:SS-0H:00" of the instant in the zone,
\* kept as its two parts: the wall-clock reading and the hour digit of the
\* offset.  Two such texts compare as Python compares the strings: by the
\* wall-clock reading first, then by the offset digit.
iso(t) == [wall |-> t + UtcOffset(t), off |-> (0 - UtcOffset(t)) \div Hour]

IsoLess(a, b) == a.wall < b.wall \/ (a.wall = b.wall /\ a.off < b.off)

\* future_cutoff: 00:00 of the next day on the wall clock of `now`, with the
\* offset `now` carries.
future_cutoff(t) ==
    LET wall == t + UtcOffset(t)
        start_of_today == wall - (wall % Day)
    IN  (start_of_today + Day) - UtcOffset(t)

(***************************************************************************)
(* Configuration and upstream events.                                       *)
(***************************************************************************)
\* calendars.json: the configured calendars, in file order.
CalNames == <<"Bob", "Alice", "Cara">>

Names == {CalNames[i] : i \in DOMAIN CalNames}

\* Python's order on the names (str comparison).
NameOrder == <<"Alice", "Bob", "Cara">>

NameRank(p) == CHOOSE i \in DOMAIN NameOrder : NameOrder[i] = p

\* What requests.get gives for one calendar: the HTTP status, whether the
\* body is an iCalendar text, and the VEVENT components of the body, each a
\* record of the properties it carries, among dtstart and dtend (timezone-aware,
\* UTC seconds) and summary.
Fetched(events) == [status |-> 200, ical |-> TRUE, events |-> events]

\* The events a feed may carry.
\*   1 Day 1         Tue Oct 27 07:00 - 19:00 EDT            12 h
\*   2 Day 1         the same event, dtstart 30 s later (same minute)
\*   3 Trauma Day 1  Tue Oct 27 13:00 - 21:00 EDT             8 h
\*   4 Day 2         Wed Oct 28 07:00 - Fri Oct 30 19:00 EDT 60 h
\*   5 Night 3       Mon Oct 26 00:30 - Tue Oct 27 13:00 EDT 36.5 h
\*   6 Night 1       Sun Nov  1 01:30 EDT - Mon Nov 2 00:30 EST 24 h
\*   7 Night 2       Sun Nov  1 01:00 EST - Mon Nov 2 01:00 EST 24 h
EventPool ==
    << [dtstart |-> 35 * Hour,      dtend |-> 47 * Hour,   summary |-> "Day 1"],
       [dtstart |-> 35 * Hour + 30, dtend |-> 47 * Hour,   summary |-> "Day 1"],
       [dtstart |-> 41 * Hour,      dtend |-> 49 * Hour,   summary |-> "Trauma Day 1"],
       [dtstart |-> 59 * Hour,      dtend |-> 119 * Hour,  summary |-> "Day 2"],
       [dtstart |-> 16200,          dtend |-> 41 * Hour,   summary |-> "Night 3"],
       [dtstart |-> 538200,         dtend |-> 624600,      summary |-> "Night 1"],
       [dtstart |-> 150 * Hour,     dtend |-> 174 * Hour,  summary |-> "Night 2"] >>

(***************************************************************************)
(* Eligibility rules.                                                       *)
(***************************************************************************)
\* The titles the model uses.
TitlePool ==
    {"", "Day 1", "Day 2", "Day 3", "Night 1", "Night 2", "Night 3", "Trauma Day 1",
     "Trauma", "US Day 2", "Sick Call", "Side B", "E2", "Meeting", "Day 4", "Holiday 1"}

\* The titles of the pool on which some EXCLUDE_PATTERNS regex finds a match
\* (trauma, the word US, sick call), and those on which some ALLOW_PATTERNS
\* regex does (day/night followed by 1, 2 or 3, e followed by 1, 2 or 3, the
\* word side).
ExcludeMatches(title) == title \in {"Trauma Day 1", "Trauma", "US Day 2", "Sick Call"}

AllowMatches(title) ==
    title \in {"Day 1", "Day 2", "Day 3", "Night 1", "Night 2", "Night 3", "Trauma Day 1",
               "US Day 2", "Side B", "E2"}

\* A variant that asks the allow-list first.
is_eligible_title_AllowFirst(title) ==
    IF title = "" THEN FALSE
    ELSE IF AllowMatches(title) THEN TRUE
    ELSE FALSE

is_eligible_title(title) ==
    IF title = "" THEN FALSE
    ELSE IF ExcludeMatches(title) THEN FALSE
    ELSE AllowMatches(title)

(***************************************************************************)
(* normalize_shifts.                                                        *)
(***************************************************************************)
ShiftId(person, start, end, title) == <<person, iso(start), iso(end), title>>

\* str(comp.get("summary", "") or "")
TitleOf(ev) == IF "summary" \in DOMAIN ev THEN ev.summary ELSE ""

MakeShift(person, ev) ==
    LET start == to_eastern(ev.dtstart)
        end == to_eastern(ev.dtend)
    IN  [id |-> ShiftId(person, start, end, TitleOf(ev)),
         person |-> person,
         title |-> TitleOf(ev),
         start |-> start,
         end |-> end,
         eligible |-> is_eligible_title(TitleOf(ev))]

\* comp.decoded("dtstart"), comp.decoded("dtend"): a property the component
\* does not carry raises KeyError.  "" when nothing is raised.
EventRaises(ev) ==
    IF "dtstart" \notin DOMAIN ev THEN "KeyError"
    ELSE IF "dtend" \notin DOMAIN ev THEN "KeyError"
    ELSE ""

RECURSIVE FeedRaises(_)
FeedRaises(feed) ==
    IF feed = <<>> THEN ""
    ELSE IF EventRaises(Head(feed)) # "" THEN EventRaises(Head(feed))
    ELSE FeedRaises(Tail(feed))

\* One calendar of the loop: resp.raise_for_status(), Calendar.from_ical,
\* then the components in order.
SourceRaises(src) ==
    IF src.status # 200 THEN "HTTPError"
    ELSE IF ~src.ical THEN "ValueError"
    ELSE FeedRaises(src.events)

\* The exception that ends the loop over the calendars from the k-th on: the
\* first one raised, nothing in the function catches it.  "" when none is.
RECURSIVE BuildRaises(_, _)
BuildRaises(cals, k) ==
    IF k > Len(CalNames) THEN ""
    ELSE IF SourceRaises(cals[CalNames[k]]) # "" THEN SourceRaises(cals[CalNames[k]])
    ELSE BuildRaises(cals, k + 1)

\* A variant that also drops a shift that starts at the cutoff.
RECURSIVE FeedShifts_AfterCutoff(_, _, _)
FeedShifts_AfterCutoff(person, feed, cutoff) ==
    IF feed = <<>> THEN <<>>
    ELSE LET s == MakeShift(person, Head(feed))
             rest == FeedShifts_AfterCutoff(person, Tail(feed), cutoff)
         IN  IF s.end <= s.start THEN rest
             ELSE IF s.start <= cutoff THEN rest
             ELSE <<s>> \o rest

\* The events of one feed that are kept: end > start and start >= cutoff.
RECURSIVE FeedShifts(_, _, _)
FeedShifts(person, feed, cutoff) ==
    IF feed = <<>> THEN <<>>
    ELSE LET s == MakeShift(person, Head(feed))
             rest == FeedShifts(person, Tail(feed), cutoff)
         IN  IF s.end <= s.start THEN rest
             ELSE IF s.start < cutoff THEN rest
             ELSE <<s>> \o rest

\* list.sort(key=start): stable, ascending by the start instant.
InsertByStart(sorted, x) ==
    LET n == Cardinality({i \in DOMAIN sorted : sorted[i].start <= x.start})
    IN  SubSeq(sorted, 1, n) \o <<x>> \o SubSeq(sorted, n + 1, Len(sorted))

\* A variant that leaves the list in feed order.
SortByStart_FeedOrder(seq) == seq

RECURSIVE SortByStart(_)
SortByStart(seq) ==
    IF seq = <<>> THEN <<>>
    ELSE InsertByStart(SortByStart(SubSeq(seq, 1, Len(seq) - 1)), seq[Len(seq)])

RECURSIVE SelectPerson(_, _)
SelectPerson(seq, p) ==
    IF seq = <<>> THEN <<>>
    ELSE IF Head(seq).person = p THEN <<Head(seq)>> \o SelectPerson(Tail(seq), p)
    ELSE SelectPerson(Tail(seq), p)

RECURSIVE FlatOf(_, _, _)
FlatOf(cals, k, cutoff) ==
    IF k > Len(CalNames) THEN <<>>
    ELSE FeedShifts(CalNames[k], cals[CalNames[k]].events, cutoff) \o FlatOf(cals, k + 1, cutoff)

\* schedules: a defaultdict with one key per person that has a shift, the
\* person's shifts sorted by start.
SchedulesOf(flat) ==
    [p \in {flat[i].person : i \in DOMAIN flat} |-> SortByStart(SelectPerson(flat, p))]

\* people: sorted(set(names)); flat: the kept shifts in feed order.  When
\* the loop raises, raised names the exception and nothing is returned.
normalize_shifts(cals, cutoff) ==
    IF BuildRaises(cals, 1) # ""
    THEN [raised |-> BuildRaises(cals, 1), people |-> <<>>, flat |-> <<>>, schedules |-> <<>>]
    ELSE [raised |-> "",
          people |-> NameOrder,
          flat |-> FlatOf(cals, 1, cutoff),
          schedules |-> SchedulesOf(FlatOf(cals, 1, cutoff))]

\* The position of a calendar in the file.
CalIndex(name) == CHOOSE k \in DOMAIN CalNames : CalNames[k] = name

\* The loop of normalize_shifts waits in requests.get once per calendar, in
\* file order, and each answer is what the source holds when it is asked.
\* fetched is the answers got so far; the mapping gives them by calendar.  A
\* calendar the loop has not reached yet is not read: the loop ends with the
\* last one, or with the exception of the one that fails.
SeenCals(fetched) ==
    [name \in Names |->
        IF CalIndex(name) <= Len(fetched) THEN fetched[CalIndex(name)] ELSE Fetched(<<>>)]

(***************************************************************************)
(* load_data_cached.                                                        *)
(***************************************************************************)
_CACHE_TTL_SECONDS == 120

\* Lines 147-149: the snapshot is there and younger than the time to live.
cache_serves(c, t) == c # <<>> /\ (t - c[1].ts) < _CACHE_TTL_SECONDS

\* _CACHE is None (<<>>) or one snapshot (<<snapshot>>).  cals is what
\* requests.get answered to this call for each calendar.  Returns the cache
\* after the call and the dataset handed to the caller; when normalize_shifts
\* raises, the exception passes through and _CACHE stays as it was.
load_data_cached(c, t, cals) ==
    IF cache_serves(c, t)
    THEN [cache |-> c, raised |-> "",
          data |-> [people |-> c[1].people, flat |-> c[1].flat, schedules |-> c[1].schedules]]
    ELSE LET d == normalize_shifts(cals, future_cutoff(t))
         IN  IF d.raised # ""
             THEN [cache |-> c, raised |-> d.raised, data |-> <<>>]
             ELSE [cache |-> <<[ts |-> t, people |-> d.people, flat |-> d.flat,
                                schedules |-> d.schedules]>>,
                   raised |-> "",
                   data |-> [people |-> d.people, flat |-> d.flat, schedules |-> d.schedules]]

(***************************************************************************)
(* Interval and rules.                                                      *)
(***************************************************************************)
\* A variant that treats the intervals as closed.
intervals_overlap_closed(a_start, a_end, b_start, b_end) ==
    (a_start <= b_end) /\ (b_start <= a_end)

intervals_overlap(a_start, a_end, b_start, b_end) ==
    (a_start < b_end) /\ (b_start < a_end)

\* exclude_id None is the empty tuple.
NoId == <<>>

RECURSIVE is_free_for_interval(_, _, _, _)
is_free_for_interval(person_shifts, interval_start, interval_end, exclude_id) ==
    IF person_shifts = <<>> THEN TRUE
    ELSE LET s == Head(person_shifts)
         IN  IF exclude_id # NoId /\ s.id = exclude_id
             THEN is_free_for_interval(Tail(person_shifts), interval_start, interval_end, exclude_id)
             ELSE IF intervals_overlap(s.start, s.end, interval_start, interval_end)
             THEN FALSE
             ELSE is_free_for_interval(Tail(person_shifts), interval_start, interval_end, exclude_id)

\* A variant that asks for a gap longer than the duration.
local_break_ok_strict(sorted_shifts, idx) ==
    /\ (idx > 1 =>
          sorted_shifts[idx].start - sorted_shifts[idx - 1].end
             > sorted_shifts[idx - 1].end - sorted_shifts[idx - 1].start)
    /\ (idx + 1 <= Len(sorted_shifts) =>
          sorted_shifts[idx + 1].start - sorted_shifts[idx].end
             > sorted_shifts[idx].end - sorted_shifts[idx].start)

\* A variant that looks at the next shift only.
local_break_ok_NextOnly(sorted_shifts, idx) ==
    (idx + 1 <= Len(sorted_shifts)) =>
        sorted_shifts[idx + 1].start - sorted_shifts[idx].end
           >= sorted_shifts[idx].end - sorted_shifts[idx].start

\* idx counts from 1 here (Python's idx + 1).
local_break_ok(sorted_shifts, idx) ==
    LET cur == sorted_shifts[idx]
        hasPrev == idx > 1
        hasNext == idx + 1 <= Len(sorted_shifts)
        prevBad == LET prev == sorted_shifts[idx - 1]
                       gap_prev == cur.start - prev.end
                       dur_prev == prev.end - prev.start
                   IN  gap_prev < dur_prev
        nextBad == LET nxt == sorted_shifts[idx + 1]
                       gap_cur == nxt.start - cur.end
                       dur_cur == cur.end - cur.start
                   IN  gap_cur < dur_cur
    IN  IF hasPrev /\ prevBad THEN FALSE
        ELSE IF hasNext /\ nextBad THEN FALSE
        ELSE TRUE

(***************************************************************************)
(* Trade simulation.                                                        *)
(***************************************************************************)
\* schedules[k] on the defaultdict: a missing key is inserted with [].
DictTouch(schedules, k) ==
    IF k \in DOMAIN schedules THEN schedules ELSE schedules @@ (k :> <<>>)

clone_for(new_person, s) ==
    [s EXCEPT !.person = new_person,
              !.id = ShiftId(new_person, s.start, s.end, s.title)]

RECURSIVE WithoutId(_, _)
WithoutId(seq, id) ==
    IF seq = <<>> THEN <<>>
    ELSE IF Head(seq).id # id THEN <<Head(seq)>> \o WithoutId(Tail(seq), id)
    ELSE WithoutId(Tail(seq), id)

\* list.index(x): the first position holding a shift equal to x.
IndexOf(seq, x) ==
    CHOOSE i \in DOMAIN seq : seq[i] = x /\ \A j \in 1..(i - 1) : seq[j] # x

\* The hypothetical post-swap schedule: the owner's list without the shift
\* given away, the clone appended, sorted by start.
PrimeOf(sched, givenId, clone) == SortByStart(WithoutId(sched, givenId) \o <<clone>>)

CapHours == 60

(***************************************************************************)
(* The hours of the weekly total are Python floats (IEEE 754 doubles).  A    *)
(* double is kept here as the exact number hi + mid / 2^30 + low / 2^60,     *)
(* with mid and low below 2^30: every double from 1/60 (one minute, in       *)
(* hours) up to 2^21 is of this form, and so is every sum of two of them.    *)
(***************************************************************************)
RECURSIVE Pow2(_)
Pow2(k) == IF k = 0 THEN 1 ELSE 2 * Pow2(k - 1)

PowersOfTwo == [k \in 0..30 |-> Pow2(k)]

Two15 == PowersOfTwo[15]
Two30 == PowersOfTwo[30]

\* The number of binary digits of n < 2^30.
BitLen(n) ==
    IF n = 0 THEN 0
    ELSE CHOOSE k \in 1..30 : PowersOfTwo[k - 1] <= n /\ (k = 30 \/ n < PowersOfTwo[k])

\* The binary exponent of the leading digit of x > 0.
FloatExponent(x) == IF x.hi > 0 THEN BitLen(x.hi) - 1 ELSE BitLen(x.mid) - 31

\* x with low replaced and its carries moved up.
Carried(x, low) ==
    [hi |-> x.hi + ((x.mid + (low \div Two30)) \div Two30),
     mid |-> (x.mid + (low \div Two30)) % Two30,
     low |-> low % Two30]

\* x rounded to a multiple of unit / 2^60, to nearest, ties to even.
RoundAt(x, sticky, unit) ==
    IF \/ 2 * (x.low % unit) > unit
       \/ /\ 2 * (x.low % unit) = unit
          /\ (sticky \/ ((x.low \div unit) % 2) = 1)
    THEN Carried(x, (x.low - (x.low % unit)) + unit)
    ELSE Carried(x, x.low - (x.low % unit))

\* x rounded to 53 significant binary digits, to nearest, ties to even;
\* sticky says that x stands for a number slightly above x.
RoundToDouble(x, sticky) ==
    IF (x.hi = 0 /\ x.mid = 0) \/ FloatExponent(x) + 8 <= 0 THEN x
    ELSE RoundAt(x, sticky, PowersOfTwo[FloatExponent(x) + 8])

\* total_seconds() / 3600.0: the quotient, correctly rounded.
HoursOf(seconds) ==
    LET r0 == seconds % 3600
        m1 == (r0 * Two15) \div 3600
        r1 == (r0 * Two15) % 3600
        m2 == (r1 * Two15) \div 3600
        r2 == (r1 * Two15) % 3600
        l1 == (r2 * Two15) \div 3600
        r3 == (r2 * Two15) % 3600
        l2 == (r3 * Two15) \div 3600
        r4 == (r3 * Two15) % 3600
    IN  RoundToDouble([hi |-> seconds \div 3600, mid |-> m1 * Two15 + m2, low |-> l1 * Two15 + l2],
                      r4 # 0)

\* x + y on doubles: the exact sum, rounded.
FloatAdd(x, y) ==
    RoundToDouble(Carried([hi |-> x.hi + y.hi, mid |-> x.mid + y.mid, low |-> 0], x.low + y.low),
                  FALSE)

FloatZero == [hi |-> 0, mid |-> 0, low |-> 0]

\* x <= h for a whole number h.
FloatLeq(x, h) == x.hi < h \/ (x.hi = h /\ x.mid = 0 /\ x.low = 0)

\* The loop of week_caps_ok over prime_sched, total being the sum so far.
RECURSIVE WeekTotal(_, _, _, _)
WeekTotal(prime_sched, week_start, week_end, total) ==
    IF prime_sched = <<>> THEN total
    ELSE LET s == Head(prime_sched)
         IN  IF week_start <= s.start /\ s.start < week_end
             THEN WeekTotal(Tail(prime_sched), week_start, week_end,
                            FloatAdd(total, HoursOf(s.end - s.start)))
             ELSE WeekTotal(Tail(prime_sched), week_start, week_end, total)

\* week_start: the wall clock of new_shift.start moved back weekday days and
\* set to 00:00, still carrying the offset of new_shift.start.
WeekStartOf(start) ==
    LET off == UtcOffset(start)
        wall == start + off
        weekday == (wall \div Day) % 7
    IN  (((wall \div Day) - weekday) * Day) - off

week_caps_ok(prime_sched, new_shift) ==
    LET week_start == WeekStartOf(new_shift.start)
        week_end == week_start + 7 * Day
    IN  FloatLeq(WeekTotal(prime_sched, week_start, week_end, FloatZero), CapHours)

\* A variant without the same-person check.
EarlyReason_NoSamePerson(trader_shift, tradee_shift) ==
    IF ~(trader_shift.eligible /\ tradee_shift.eligible) THEN "ineligible-title" ELSE ""

\* Lines 200-206: the checks on the two shifts alone; "" when both pass.
EarlyReason(trader_shift, tradee_shift) ==
    IF ~(trader_shift.eligible /\ tradee_shift.eligible) THEN "ineligible-title"
    ELSE IF trader_shift.person = tradee_shift.person THEN "same-person"
    ELSE ""

\* Lines 214-218: availability, ignoring the shift each side gives up.
\* A variant that asks only whether the tradee is free.
AvailabilityReason_OnlyB(A_sched, B_sched, sA, sB) ==
    IF ~is_free_for_interval(B_sched, sA.start, sA.end, sB.id) THEN "B-not-free-for-A"
    ELSE ""

AvailabilityReason(A_sched, B_sched, sA, sB) ==
    IF ~is_free_for_interval(B_sched, sA.start, sA.end, sB.id) THEN "B-not-free-for-A"
    ELSE IF ~is_free_for_interval(A_sched, sB.start, sB.end, sA.id) THEN "A-not-free-for-B"
    ELSE ""

\* A variant that reports the weekly cap before the rest rule.
RulesReason_CapFirst(A_prime, sB_for_A, B_prime, sA_for_B) ==
    IF ~week_caps_ok(A_prime, sB_for_A) THEN "A-weekly-cap"
    ELSE IF ~week_caps_ok(B_prime, sA_for_B) THEN "B-weekly-cap"
    ELSE IF ~local_break_ok(A_prime, IndexOf(A_prime, sB_for_A)) THEN "A-break-rule"
    ELSE IF ~local_break_ok(B_prime, IndexOf(B_prime, sA_for_B)) THEN "B-break-rule"
    ELSE "ok"

\* A variant that leaves out the rest check on B's side.
RulesReason_NoBBreak(A_prime, sB_for_A, B_prime, sA_for_B) ==
    IF ~local_break_ok(A_prime, IndexOf(A_prime, sB_for_A)) THEN "A-break-rule"
    ELSE IF ~week_caps_ok(A_prime, sB_for_A) THEN "A-weekly-cap"
    ELSE IF ~week_caps_ok(B_prime, sA_for_B) THEN "B-weekly-cap"
    ELSE "ok"

\* Lines 236-262: the localized rest checks, then the weekly caps.
RulesReason(A_prime, sB_for_A, B_prime, sA_for_B) ==
    LET a_idx == IndexOf(A_prime, sB_for_A)
        b_idx == IndexOf(B_prime, sA_for_B)
    IN  IF ~local_break_ok(A_prime, a_idx) THEN "A-break-rule"
        ELSE IF ~local_break_ok(B_prime, b_idx) THEN "B-break-rule"
        ELSE IF ~week_caps_ok(A_prime, sB_for_A) THEN "A-weekly-cap"
        ELSE IF ~week_caps_ok(B_prime, sA_for_B) THEN "B-weekly-cap"
        ELSE "ok"

\* A variant that writes the trader's new list into the mapping.
AfterPrimes_TraderInPlace(schedules, A, A_prime, B, B_prime) ==
    [p \in DOMAIN schedules |-> IF p = A THEN A_prime ELSE schedules[p]]

\* A variant that edits the owners' lists in place instead of copying them.
AfterPrimes_InPlace(schedules, A, A_prime, B, B_prime) ==
    [p \in DOMAIN schedules |-> IF p = A THEN A_prime ELSE IF p = B THEN B_prime ELSE schedules[p]]

\* Lines 231-234: A_prime and B_prime are new lists (a comprehension plus a
\* new one-element list, sorted themselves); the mapping keeps its own.
AfterPrimes(schedules, A, A_prime, B, B_prime) == schedules

\* Returns ok, reason and the schedules mapping as the call leaves it.
simulate_swap_ok(schedules, trader_shift, tradee_shift) ==
    LET early == EarlyReason(trader_shift, tradee_shift)
    IN
    IF early # ""
    THEN [ok |-> FALSE, reason |-> early, schedules |-> schedules]
    ELSE
    LET A == trader_shift.person
        B == tradee_shift.person
        sA == trader_shift
        sB == tradee_shift
        touched == DictTouch(DictTouch(schedules, A), B)
        A_sched == touched[A]
        B_sched == touched[B]
        avail == AvailabilityReason(A_sched, B_sched, sA, sB)
    IN
    IF avail # ""
    THEN [ok |-> FALSE, reason |-> avail, schedules |-> touched]
    ELSE
    LET sB_for_A == clone_for(A, sB)
        sA_for_B == clone_for(B, sA)
        A_prime == PrimeOf(A_sched, sA.id, sB_for_A)
        B_prime == PrimeOf(B_sched, sB.id, sA_for_B)
        reason == RulesReason(A_prime, sB_for_A, B_prime, sA_for_B)
    IN  [ok |-> (reason = "ok"), reason |-> reason,
         schedules |-> AfterPrimes(touched, A, A_prime, B, B_prime)]

(***************************************************************************)
(* The endpoints.  Each returns the cache as the request leaves it and the  *)
(* response.  A missing or empty request field is "" (a person) or NoId     *)
(* (a shift id).                                                            *)
(***************************************************************************)
ShiftView(s) ==
    [id |-> s.id, person |-> s.person, title |-> s.title,
     start |-> iso(s.start), end |-> iso(s.end), eligible |-> s.eligible]

\* An exception that leaves a view: Flask answers 500.
ServerError(op, c) ==
    [cache |-> c,
     resp |-> [op |-> op, status |-> 500, body |-> [error |-> "Internal Server Error"]]]

\* /shifts.json
shifts_json(c, t, cals) ==
    LET ld == load_data_cached(c, t, cals)
    IN  IF ld.raised # "" THEN ServerError("shifts", ld.cache)
        ELSE
        [cache |-> ld.cache,
         resp |-> [op |-> "shifts", status |-> 200,
                   body |-> [people |-> ld.data.people,
                             shifts |-> [i \in DOMAIN ld.data.flat |-> ShiftView(ld.data.flat[i])]]]]

\* next((s for s in flat if ...), None): the matching positions, lowest first.
FirstIndex(S) == CHOOSE i \in S : \A j \in S : i <= j

\* The key of candidates.sort: (tradee_shift.start as text, tradee_person).
CandKeyLeq(c1, c2) ==
    \/ IsoLess(c1.tradee_shift.start, c2.tradee_shift.start)
    \/ /\ c1.tradee_shift.start = c2.tradee_shift.start
       /\ NameRank(c1.tradee_person) <= NameRank(c2.tradee_person)

InsertCand(sorted, x) ==
    LET n == Cardinality({i \in DOMAIN sorted : CandKeyLeq(sorted[i], x)})
    IN  SubSeq(sorted, 1, n) \o <<x>> \o SubSeq(sorted, n + 1, Len(sorted))

RECURSIVE SortCandidates(_)
SortCandidates(seq) ==
    IF seq = <<>> THEN <<>>
    ELSE InsertCand(SortCandidates(SubSeq(seq, 1, Len(seq) - 1)), seq[Len(seq)])

\* A variant that keeps a shift when the reason is non-empty (if reason:).
RECURSIVE CandidateLoop_AnyReason(_, _, _, _, _)
CandidateLoop_AnyReason(flat, k, schedules, trader_shift, trader_person) ==
    IF k > Len(flat) THEN [candidates |-> <<>>, schedules |-> schedules]
    ELSE LET sB == flat[k]
         IN  IF sB.person = trader_person
             THEN CandidateLoop_AnyReason(flat, k + 1, schedules, trader_shift, trader_person)
             ELSE LET sim == simulate_swap_ok(schedules, trader_shift, sB)
                      rest == CandidateLoop_AnyReason(flat, k + 1, sim.schedules, trader_shift, trader_person)
                  IN  IF sim.reason # ""
                      THEN [candidates |-> <<[tradee_person |-> sB.person,
                                              tradee_shift |-> ShiftView(sB),
                                              reason |-> sim.reason]>> \o rest.candidates,
                            schedules |-> rest.schedules]
                      ELSE rest

\* The loop over flat of trade_options from position k on: the candidates
\* appended and the schedules mapping as the loop leaves it.
RECURSIVE CandidateLoop(_, _, _, _, _)
CandidateLoop(flat, k, schedules, trader_shift, trader_person) ==
    IF k > Len(flat) THEN [candidates |-> <<>>, schedules |-> schedules]
    ELSE LET sB == flat[k]
         IN  IF sB.person = trader_person
             THEN CandidateLoop(flat, k + 1, schedules, trader_shift, trader_person)
             ELSE LET sim == simulate_swap_ok(schedules, trader_shift, sB)
                      rest == CandidateLoop(flat, k + 1, sim.schedules, trader_shift, trader_person)
                  IN  IF sim.ok
                      THEN [candidates |-> <<[tradee_person |-> sB.person,
                                              tradee_shift |-> ShiftView(sB),
                                              reason |-> sim.reason]>> \o rest.candidates,
                            schedules |-> rest.schedules]
                      ELSE rest

\* A variant that resolves the trader shift by its id alone.
TraderHits_IdOnly(flat, trader_shift_id, trader_person) ==
    {i \in DOMAIN flat : flat[i].id = trader_shift_id}

\* Line 298: the positions of flat whose shift has the id and the owner.
TraderHits(flat, trader_shift_id, trader_person) ==
    {i \in DOMAIN flat : flat[i].id = trader_shift_id /\ flat[i].person = trader_person}

\* The snapshot's schedules mapping is the object the handler worked on.
WithSchedules(c, schedules) == <<[c[1] EXCEPT !.schedules = schedules]>>

\* /trade-options
trade_options(c, t, cals, trader_person, trader_shift_id) ==
    IF trader_person = "" \/ trader_shift_id = NoId
    THEN [cache |-> c,
          resp |-> [op |-> "options", status |-> 400,
                    body |-> [error |-> "missing trader_person or trader_shift_id"]]]
    ELSE
    LET ld == load_data_cached(c, t, cals)
        flat == ld.data.flat
        hits == TraderHits(flat, trader_shift_id, trader_person)
    IN
    IF ld.raised # "" THEN ServerError("options", ld.cache)
    ELSE
    IF hits = {}
    THEN [cache |-> ld.cache,
          resp |-> [op |-> "options", status |-> 404,
                    body |-> [error |-> "trader_shift not found"]]]
    ELSE
    LET trader_shift == flat[FirstIndex(hits)]
        loop == CandidateLoop(flat, 1, ld.data.schedules, trader_shift, trader_person)
    IN  [cache |-> WithSchedules(ld.cache, loop.schedules),
         resp |-> [op |-> "options", status |-> 200,
                   body |-> [trader_shift |-> ShiftView(trader_shift),
                             candidates |-> SortCandidates(loop.candidates)]]]

\* A variant that resolves the trader shift by the tradee's id.
TraderIdHits_TradeeId(flat, trader_shift_id, tradee_shift_id) ==
    {i \in DOMAIN flat : flat[i].id = tradee_shift_id}

\* Line 348: the positions of flat whose shift has the first id.
TraderIdHits(flat, trader_shift_id, tradee_shift_id) ==
    {i \in DOMAIN flat : flat[i].id = trader_shift_id}

\* A variant that looks the second shift up by the first id.
TradeeIdHits_TraderId(flat, trader_shift_id, tradee_shift_id) ==
    {i \in DOMAIN flat : flat[i].id = trader_shift_id}

\* Line 349: the positions of flat whose shift has the second id.
TradeeIdHits(flat, trader_shift_id, tradee_shift_id) ==
    {i \in DOMAIN flat : flat[i].id = tradee_shift_id}

\* /trade-recheck
trade_recheck(c, t, cals, trader_shift_id, tradee_shift_id) ==
    IF trader_shift_id = NoId \/ tradee_shift_id = NoId
    THEN [cache |-> c,
          resp |-> [op |-> "recheck", status |-> 400, body |-> [error |-> "missing ids"]]]
    ELSE
    LET ld == load_data_cached(c, t, cals)
        flat == ld.data.flat
        hitsA == TraderIdHits(flat, trader_shift_id, tradee_shift_id)
        hitsB == TradeeIdHits(flat, trader_shift_id, tradee_shift_id)
    IN
    IF ld.raised # "" THEN ServerError("recheck", ld.cache)
    ELSE
    IF hitsA = {} \/ hitsB = {}
    THEN [cache |-> ld.cache,
          resp |-> [op |-> "recheck", status |-> 404,
                    body |-> [ok |-> FALSE, reason |-> "not-found"]]]
    ELSE
    LET sim == simulate_swap_ok(ld.data.schedules, flat[FirstIndex(hitsA)], flat[FirstIndex(hitsB)])
    IN  [cache |-> WithSchedules(ld.cache, sim.schedules),
         resp |-> [op |-> "recheck", status |-> 200,
                   body |-> [ok |-> sim.ok, reason |-> sim.reason]]]

(***************************************************************************)
(* The service: one client, one request at a time.  A request that the      *)
(* cache does not serve waits in requests.get once per calendar: the        *)
(* handler is one step up to the first wait, one step per answer, and the   *)
(* step of the last answer runs to the response.  Under Spec the calendars   *)
(* do not change and the clock stands still (so the first request fills the *)
(* cache and the later ones are served from it); under SpecLive the feeds    *)
(* change and the clock moves while a request waits.                        *)
(***************************************************************************)
\* The threads that serve requests at the same time, and none of them inside
\* a handler.
Threads == {1, 2}

\* The thread of a server that has one request at a time.
Main == CHOOSE th \in Threads : \A other \in Threads : th <= other

NoCalls == [th \in Threads |-> [pc |-> "idle"]]

\* Sunday 2026-10-25 12:00 EDT; the cutoff is then Monday 2026-10-26 00:00 EDT.
StartClock == 0 - 8 * Hour

\* The events a calendar can carry: any of the pool for Alice and Bob; Day 2
\* and Night 2 for Cara.
Slots == ({"Alice", "Bob"} \X (1..Len(EventPool))) \cup ({"Cara"} \X {4, 7})

RECURSIVE SubsetsUpTo(_, _)
SubsetsUpTo(S, k) ==
    IF k = 0 THEN {{}}
    ELSE LET smaller == SubsetsUpTo(S, k - 1)
         IN  smaller \cup {T \cup {x} : T \in smaller, x \in S}

\* The feed of one calendar: the chosen events, in pool order.
RECURSIVE FeedOf(_, _, _, _)
FeedOf(pool, chosen, name, i) ==
    IF i > Len(pool) THEN <<>>
    ELSE (IF <<name, i>> \in chosen THEN <<pool[i]>> ELSE <<>>) \o FeedOf(pool, chosen, name, i + 1)

\* A source that answers, or the one that fails and how.
SourceOf(bad, name, events) ==
    [status |-> IF bad = <<name, "http">> THEN 503 ELSE 200,
     ical |-> bad # <<name, "ical">>,
     events |-> events]

\* What the sources hold where the feeds change: Bob's Day 1; Bob's Day 1 and
\* Alice's Day 2; Bob's Day 1 with the source of Cara answering an HTTP error.
Upstream(chosen, bad) ==
    [name \in Names |-> SourceOf(bad, name, FeedOf(EventPool, chosen, name, 1))]

Upstreams ==
    {Upstream({<<"Bob", 1>>}, <<"", "">>),
     Upstream({<<"Bob", 1>>, <<"Alice", 4>>}, <<"", "">>),
     Upstream({<<"Bob", 1>>}, <<"Cara", "http">>)}

\* The same, and Alice's Day 2 alone, under the endpoints.
LiveFeeds == Upstreams \cup {Upstream({<<"Alice", 4>>}, <<"", "">>)}

\* The id of a shift that is in no dataset: it started before the cutoff.
StaleId == ShiftId("Alice", 0, Hour, "Day 1")

\* What the calendars give now.
CurrentFlat == normalize_shifts(calendars, future_cutoff(now)).flat

\* What the feeds hold over a run: one of the values above, or what they hold
\* now when they do not change.
FeedValues == IF calendars \in LiveFeeds THEN LiveFeeds ELSE {calendars}

\* What a client may send: the ids of the shifts the feeds hold at one time or
\* another (a client keeps the ids of a listing it got), a stale id, nothing;
\* a configured name, nothing.
IdsOf(flat) == {flat[i].id : i \in DOMAIN flat}

IdInputs ==
    UNION {IdsOf(normalize_shifts(cals, future_cutoff(now)).flat) : cals \in FeedValues}
        \cup {StaleId, NoId}

PersonInputs == Names \cup {""}

Init ==
    /\ \E chosen \in SubsetsUpTo(Slots, MaxShifts) :
          calendars = [name \in Names |-> Fetched(FeedOf(EventPool, chosen, name, 1))]
    /\ now = StartClock
    /\ cache = <<>>
    /\ resp = <<>>
    /\ calls = NoCalls
    /\ passes = {}

\* The view function of a request, on what requests.get answered to it.
View(op, req, c, t, cals) ==
    IF op = "shifts" THEN shifts_json(c, t, cals)
    ELSE IF op = "options" THEN trade_options(c, t, cals, req[1], req[2])
    ELSE trade_recheck(c, t, cals, req[1], req[2])

\* Lines 293 and 344: the request is answered 400 before load_data_cached.
Rejected(op, req) ==
    \/ op = "options" /\ (req[1] = "" \/ req[2] = NoId)
    \/ op = "recheck" /\ (req[1] = NoId \/ req[2] = NoId)

\* The response leaves the handler; the thread is free again.
Answer(req, r) ==
    /\ cache' = r.cache
    /\ resp' = <<[req |-> req] @@ r.resp>>
    /\ calls' = [calls EXCEPT ![Main] = [pc |-> "idle"]]
    /\ UNCHANGED <<calendars, now, passes>>

\* A request arrives; answer is what its view gives with no fetch.  Rejected,
\* or served by the cache, it is answered with no wait.  Otherwise
\* load_data_cached has read the clock (line 146) and found the cache empty
\* or old, normalize_shifts has taken the cutoff from the clock (line 98), and
\* the handler waits in the first requests.get.
Request(op, req, answer) ==
    /\ calls[Main].pc = "idle"
    /\ IF Rejected(op, req) \/ cache_serves(cache, now)
       THEN \E r \in {answer} : Answer(req, r)
       ELSE /\ calls' = [calls EXCEPT ![Main] =
                            [pc |-> "fetch", op |-> op, req |-> req, now |-> now,
                             fetched |-> <<>>]]
            /\ UNCHANGED <<calendars, now, cache, resp, passes>>

ShiftsJson ==
    /\ resp = <<>>
    /\ Request("shifts", <<>>, shifts_json(cache, now, SeenCals(<<>>)))

TradeOptions ==
    /\ resp = <<>>
    /\ \E p \in PersonInputs, id \in IdInputs :
          Request("options", <<p, id>>, trade_options(cache, now, SeenCals(<<>>), p, id))

TradeRecheck ==
    /\ resp = <<>>
    /\ \E idA \in IdInputs, idB \in IdInputs :
          Request("recheck", <<idA, idB>>, trade_recheck(cache, now, SeenCals(<<>>), idA, idB))

\* The call of normalize_shifts(start_cutoff) on its own returns or raises.
Returned(req, cals) ==
    /\ resp' = <<[op |-> "normalize_shifts", status |-> 200, req |-> req,
                  body |-> normalize_shifts(cals, req.start_cutoff)]>>
    /\ calls' = [calls EXCEPT ![Main] = [pc |-> "idle"]]
    /\ UNCHANGED <<calendars, now, cache, passes>>

\* One requests.get of the loop is answered (lines 105-131): the source holds
\* what calendars has for it now.  An answer that raises ends the handler
\* (Flask answers 500, _CACHE is left alone); after the last answer the
\* handler runs to its response with no further wait: schedules and people
\* (lines 133-140), the store under the time read at line 146 (line 152), the
\* rest of the view.
Fetch ==
    /\ calls[Main].pc = "fetch"
    /\ LET call == calls[Main]
           src == calendars[CalNames[Len(call.fetched) + 1]]
           fetched == Append(call.fetched, src)
       IN  IF SourceRaises(src) = "" /\ Len(fetched) < Len(CalNames)
           THEN /\ calls' = [calls EXCEPT ![Main].fetched = fetched]
                /\ UNCHANGED <<calendars, now, cache, resp, passes>>
           ELSE IF call.op = "normalize_shifts"
           THEN Returned(call.req, SeenCals(fetched))
           ELSE \E r \in {View(call.op, call.req, cache, call.now, SeenCals(fetched))} :
                   Answer(call.req, r)

\* The client takes the response.
Deliver ==
    /\ resp # <<>>
    /\ resp' = <<>>
    /\ UNCHANGED <<calendars, now, cache, calls, passes>>

Next == ShiftsJson \/ TradeOptions \/ TradeRecheck \/ Fetch \/ Deliver

Spec == Init /\ [][Next]_vars

(***************************************************************************)
(* The rules called on their own: the lists are the per-person schedules    *)
(* the calendars give, the intervals those of the pool's events.  One       *)
(* calendar is filled, from the pool extended by three shifts of the week   *)
(* of Monday 2026-11-02 that last 20 h, 24 h 10 min and 15 h 50 min.        *)
(***************************************************************************)
RulePool ==
    EventPool \o
    << [dtstart |-> 180 * Hour, dtend |-> 200 * Hour,               summary |-> "Day 1"],
       [dtstart |-> 212 * Hour, dtend |-> 236 * Hour + 10 * Minute, summary |-> "Day 2"],
       [dtstart |-> 262 * Hour, dtend |-> 277 * Hour + 50 * Minute, summary |-> "Night 1"] >>

RuleSlots == {"Bob"} \X (1..Len(RulePool))

InitFn ==
    /\ \E chosen \in SubsetsUpTo(RuleSlots, MaxShifts) :
          calendars = [name \in Names |-> Fetched(FeedOf(RulePool, chosen, name, 1))]
    /\ now = StartClock
    /\ cache = <<>>
    /\ resp = <<>>
    /\ calls = NoCalls
    /\ passes = {}

CurrentSchedules == normalize_shifts(calendars, future_cutoff(now)).schedules

FnAnswer(op, req, value) ==
    /\ resp' = <<[op |-> op, status |-> 200, req |-> req, body |-> value]>>
    /\ UNCHANGED <<calendars, now, cache, calls, passes>>

CallIsFree ==
    /\ resp = <<>>
    /\ \E p \in DOMAIN CurrentSchedules, e \in DOMAIN RulePool :
          LET person_shifts == CurrentSchedules[p]
              probe == MakeShift(p, RulePool[e])
          IN  \E exclude_id \in {person_shifts[i].id : i \in DOMAIN person_shifts} \cup {NoId} :
                 FnAnswer("is_free_for_interval",
                          [person_shifts |-> person_shifts, interval_start |-> probe.start,
                           interval_end |-> probe.end, exclude_id |-> exclude_id],
                          is_free_for_interval(person_shifts, probe.start, probe.end, exclude_id))

CallLocalBreak ==
    /\ resp = <<>>
    /\ \E p \in DOMAIN CurrentSchedules :
          \E idx \in DOMAIN CurrentSchedules[p] :
             FnAnswer("local_break_ok",
                      [sorted_shifts |-> CurrentSchedules[p], idx |-> idx],
                      local_break_ok(CurrentSchedules[p], idx))

CallWeekCaps ==
    /\ resp = <<>>
    /\ \E p \in DOMAIN CurrentSchedules :
          \E idx \in DOMAIN CurrentSchedules[p] :
             FnAnswer("week_caps_ok",
                      [prime_sched |-> CurrentSchedules[p], new_shift |-> CurrentSchedules[p][idx]],
                      week_caps_ok(CurrentSchedules[p], CurrentSchedules[p][idx]))

NextFn == CallIsFree \/ CallLocalBreak \/ CallWeekCaps \/ Deliver

SpecFn == InitFn /\ [][NextFn]_vars

(***************************************************************************)
(* The schedule builder called on its own, on feeds that also carry events  *)
(* it drops (in the past, empty or negative length), events without DTEND   *)
(* or SUMMARY, and with at most one source that fails (an HTTP error status  *)
(* or a body that is no calendar).                                          *)
(*   1 Day 1         Tue Oct 27 07:00 - 19:00 EDT                           *)
(*   2 Day 1         the same event, dtstart 30 s later (same minute)        *)
(*   3 Day 3         Mon Oct 26 00:00 - 12:00 EDT (starts at the cutoff)     *)
(*   4 Night 1       Sun Oct 25 23:59:30 - Mon 12:00 EDT (before the cutoff) *)
(*   5 Day 2         Mon Oct 26 16:00 - 16:00 EDT (empty)                    *)
(*   6 Day 2         Mon Oct 26 16:00:10 - 16:00:50 EDT (empty once rounded) *)
(*   7 Night 2       Wed Oct 28 08:00 - Tue Oct 27 22:00 EDT (negative)      *)
(*   8 Night 3       Wed Oct 28 18:00 EDT, no DTEND                          *)
(*   9 (no SUMMARY)  Thu Oct 29 04:00 - 14:00 EDT                            *)
(*  10 Trauma Day 1  Tue Oct 27 13:00 - 21:00 EDT                            *)
(***************************************************************************)
BuildPool ==
    << EventPool[1],
       EventPool[2],
       [dtstart |-> 4 * Hour,       dtend |-> 16 * Hour,      summary |-> "Day 3"],
       [dtstart |-> 4 * Hour - 30,  dtend |-> 16 * Hour,      summary |-> "Night 1"],
       [dtstart |-> 20 * Hour,      dtend |-> 20 * Hour,      summary |-> "Day 2"],
       [dtstart |-> 20 * Hour + 10, dtend |-> 20 * Hour + 50, summary |-> "Day 2"],
       [dtstart |-> 60 * Hour,      dtend |-> 50 * Hour,      summary |-> "Night 2"],
       [dtstart |-> 70 * Hour,                                summary |-> "Night 3"],
       [dtstart |-> 80 * Hour,      dtend |-> 90 * Hour],
       EventPool[3] >>

BuildSlots == Names \X (1..Len(BuildPool))

\* The source that fails and how, or none.
BadSourceChoices == {<<"", "">>} \cup (Names \X {"http", "ical"})

InitBuild ==
    /\ \E chosen \in SubsetsUpTo(BuildSlots, MaxShifts), bad \in BadSourceChoices :
          calendars = [name \in Names |-> SourceOf(bad, name, FeedOf(BuildPool, chosen, name, 1))]
    /\ now = StartClock
    /\ cache = <<>>
    /\ resp = <<>>
    /\ calls = NoCalls
    /\ passes = {}

\* The cutoffs asked for: the one of the clock (Monday 2026-10-26 00:00 EDT)
\* and Tuesday 2026-10-27 07:00 EDT.
CutoffInputs == {future_cutoff(now), 35 * Hour}

\* normalize_shifts(start_cutoff) is called: it waits in the first
\* requests.get; Fetch takes the answers.
CallNormalize ==
    /\ resp = <<>>
    /\ calls[Main].pc = "idle"
    /\ \E start_cutoff \in CutoffInputs :
          calls' = [calls EXCEPT ![Main] =
                       [pc |-> "fetch", op |-> "normalize_shifts",
                        req |-> [start_cutoff |-> start_cutoff], now |-> now,
                        fetched |-> <<>>]]
    /\ UNCHANGED <<calendars, now, cache, resp, passes>>

CallEligible ==
    /\ resp = <<>>
    /\ calls[Main].pc = "idle"
    /\ \E title \in TitlePool :
          FnAnswer("is_eligible_title", [title |-> title], is_eligible_title(title))

NextBuild == CallNormalize \/ CallEligible \/ Fetch \/ Deliver

SpecBuild == InitBuild /\ [][NextBuild]_vars

(***************************************************************************)
(* load_data_cached under the threaded server: each request thread runs the *)
(* function one statement, one read of the global _CACHE and one wait in    *)
(* requests.get at a time; nothing in the function holds a lock.  The clock *)
(* moves and the feeds change while calls are under way, between two        *)
(* fetches of one run too.  passes records the result of every run of       *)
(* normalize_shifts that returned.                                          *)
(***************************************************************************)
MaxTicks == 3

TickStep == Minute

InitCache ==
    /\ calendars = Upstream({<<"Bob", 1>>}, <<"", "">>)
    /\ now = StartClock
    /\ cache = <<>>
    /\ resp = <<>>
    /\ calls = NoCalls
    /\ passes = {}

Triple(d) == [people |-> d.people, flat |-> d.flat, schedules |-> d.schedules]

\* now = datetime.now(EASTERN).  before keeps what _CACHE held when the call
\* began, for the properties; the function does not read it.
CallStart(th) ==
    /\ calls[th].pc = "idle"
    /\ calls' = [calls EXCEPT ![th] = [pc |-> "test_none", now |-> now, before |-> cache]]
    /\ UNCHANGED <<calendars, now, cache, resp, passes>>

\* if _CACHE is not None
TestNone(th) ==
    /\ calls[th].pc = "test_none"
    /\ calls' = [calls EXCEPT ![th].pc = IF cache # <<>> THEN "read_ts" ELSE "normalize"]
    /\ UNCHANGED <<calendars, now, cache, resp, passes>>

\* ts = _CACHE.get("ts"); if ts and (now - ts).total_seconds() < TTL
ReadTs(th) ==
    /\ calls[th].pc = "read_ts"
    /\ calls' = [calls EXCEPT ![th].pc =
                    IF (calls[th].now - cache[1].ts) < _CACHE_TTL_SECONDS
                    THEN "read_people" ELSE "normalize"]
    /\ UNCHANGED <<calendars, now, cache, resp, passes>>

\* return _CACHE["people"], ...
ReadPeople(th) ==
    /\ calls[th].pc = "read_people"
    /\ calls' = [calls EXCEPT ![th] =
                    [pc |-> "read_flat", now |-> calls[th].now, before |-> calls[th].before,
                     people |-> cache[1].people]]
    /\ UNCHANGED <<calendars, now, cache, resp, passes>>

\* ..., _CACHE["flat"], ...
ReadFlat(th) ==
    /\ calls[th].pc = "read_flat"
    /\ calls' = [calls EXCEPT ![th] =
                    [pc |-> "read_schedules", now |-> calls[th].now, before |-> calls[th].before,
                     people |-> calls[th].people, flat |-> cache[1].flat]]
    /\ UNCHANGED <<calendars, now, cache, resp, passes>>

\* ..., _CACHE["schedules"]
ReadSchedules(th) ==
    /\ calls[th].pc = "read_schedules"
    /\ calls' = [calls EXCEPT ![th] =
                    [pc |-> "done", now |-> calls[th].now, before |-> calls[th].before,
                     rebuilt |-> FALSE,
                     result |-> [people |-> calls[th].people, flat |-> calls[th].flat,
                                 schedules |-> cache[1].schedules]]]
    /\ UNCHANGED <<calendars, now, cache, resp, passes>>

\* A variant that stamps the cache before the feeds are read, so that a run
\* that raises leaves an empty snapshot under a new timestamp.
Normalize_StampFirst(th) ==
    /\ calls[th].pc = "normalize"
    /\ calls' = [calls EXCEPT ![th] =
                    [pc |-> "fetch", now |-> calls[th].now, before |-> calls[th].before,
                     cutoff |-> future_cutoff(now), fetched |-> <<>>]]
    /\ cache' = <<[ts |-> calls[th].now, people |-> <<>>, flat |-> <<>>, schedules |-> <<>>]>>
    /\ UNCHANGED <<calendars, now, resp, passes>>

\* people, flat, schedules = normalize_shifts(): the call is entered, the
\* cutoff is taken from the clock as it is now (line 98), and the loop waits
\* in its first requests.get.
Normalize(th) ==
    /\ calls[th].pc = "normalize"
    /\ calls' = [calls EXCEPT ![th] =
                    [pc |-> "fetch", now |-> calls[th].now, before |-> calls[th].before,
                     cutoff |-> future_cutoff(now), fetched |-> <<>>]]
    /\ UNCHANGED <<calendars, now, cache, resp, passes>>

\* One requests.get of the loop is answered (lines 105-131) with what the
\* source holds now.  An exception leaves normalize_shifts and
\* load_data_cached; after the last answer normalize_shifts returns (lines
\* 133-140).
FetchFeed(th) ==
    /\ calls[th].pc = "fetch"
    /\ LET call == calls[th]
           src == calendars[CalNames[Len(call.fetched) + 1]]
           fetched == Append(call.fetched, src)
           d == normalize_shifts(SeenCals(fetched), call.cutoff)
       IN  IF SourceRaises(src) # ""
           THEN /\ calls' = [calls EXCEPT ![th] =
                                [pc |-> "raised", now |-> call.now, before |-> call.before,
                                 raised |-> SourceRaises(src)]]
                /\ UNCHANGED passes
           ELSE IF Len(fetched) < Len(CalNames)
           THEN /\ calls' = [calls EXCEPT ![th].fetched = fetched]
                /\ UNCHANGED passes
           ELSE /\ calls' = [calls EXCEPT ![th] =
                                [pc |-> "store", now |-> call.now, before |-> call.before,
                                 result |-> Triple(d)]]
                /\ passes' = passes \cup {Triple(d)}
    /\ UNCHANGED <<calendars, now, cache, resp>>

\* _CACHE = {"ts": now, ...}; return people, flat, schedules
Store(th) ==
    /\ calls[th].pc = "store"
    /\ cache' = <<[ts |-> calls[th].now] @@ calls[th].result>>
    /\ calls' = [calls EXCEPT ![th] =
                    [pc |-> "done", now |-> calls[th].now, before |-> calls[th].before,
                     rebuilt |-> TRUE,
                     result |-> calls[th].result]]
    /\ UNCHANGED <<calendars, now, resp, passes>>

\* The caller has the triple, or the exception.
Return(th) ==
    /\ calls[th].pc \in {"done", "raised"}
    /\ calls' = [calls EXCEPT ![th] = [pc |-> "idle"]]
    /\ UNCHANGED <<calendars, now, cache, resp, passes>>

Tick ==
    /\ now < StartClock + MaxTicks * TickStep
    /\ now' = now + TickStep
    /\ UNCHANGED <<calendars, cache, resp, calls, passes>>

UpstreamChange ==
    /\ \E next \in Upstreams \ {calendars} : calendars' = next
    /\ UNCHANGED <<now, cache, resp, calls, passes>>

NextCache ==
    \/ \E th \in Threads :
          \/ CallStart(th)
          \/ TestNone(th)
          \/ ReadTs(th)
          \/ ReadPeople(th)
          \/ ReadFlat(th)
          \/ ReadSchedules(th)
          \/ Normalize(th)
          \/ FetchFeed(th)
          \/ Store(th)
          \/ Return(th)
    \/ Tick
    \/ UpstreamChange

SpecCache == InitCache /\ [][NextCache]_vars

(***************************************************************************)
(* The service and the schedule builder while the feeds change and the      *)
(* clock moves: a change or a tick can fall between two fetches of one      *)
(* request.                                                                 *)
(***************************************************************************)
FeedChange ==
    /\ \E next \in LiveFeeds \ {calendars} : calendars' = next
    /\ UNCHANGED <<now, cache, resp, calls, passes>>

NextLive ==
    \/ ShiftsJson
    \/ TradeOptions
    \/ TradeRecheck
    \/ CallNormalize
    \/ Fetch
    \/ Deliver
    \/ Tick
    \/ FeedChange

SpecLive == InitCache /\ [][NextLive]_vars

(***************************************************************************)
(* Rechecks on schedules of short shifts of two people, where a swap can    *)
(* put a shift inside a long one, or too close after one, of a schedule of  *)
(* three.                                                                   *)
(*   1 Day 1    Tue Oct 27 12:00 - Wed Oct 28 18:00 EDT  30 h               *)
(*   2 Day 2    Tue Oct 27 16:00 - 18:00 EDT              2 h               *)
(*   3 Night 1  Tue Oct 27 22:00 - 24:00 EDT              2 h               *)
(*   4 Day 3    Fri Oct 30 00:00 - 10:00 EDT             10 h               *)
(*   5 Night 2  Fri Oct 30 12:00 - 14:00 EDT              2 h               *)
(*   6 Night 3  Tue Nov  3 03:00 - 05:00 EST              2 h               *)
(***************************************************************************)
SwapPool ==
    << [dtstart |-> 40 * Hour,  dtend |-> 70 * Hour,  summary |-> "Day 1"],
       [dtstart |-> 44 * Hour,  dtend |-> 46 * Hour,  summary |-> "Day 2"],
       [dtstart |-> 50 * Hour,  dtend |-> 52 * Hour,  summary |-> "Night 1"],
       [dtstart |-> 100 * Hour, dtend |-> 110 * Hour, summary |-> "Day 3"],
       [dtstart |-> 112 * Hour, dtend |-> 114 * Hour, summary |-> "Night 2"],
       [dtstart |-> 200 * Hour, dtend |-> 202 * Hour, summary |-> "Night 3"] >>

SwapSlots == {"Alice", "Bob"} \X (1..Len(SwapPool))

InitSwap ==
    /\ \E chosen \in SubsetsUpTo(SwapSlots, MaxShifts + 1) :
          calendars = [name \in Names |-> Fetched(FeedOf(SwapPool, chosen, name, 1))]
    /\ now = StartClock
    /\ cache = <<>>
    /\ resp = <<>>
    /\ calls = NoCalls
    /\ passes = {}

NextSwap == TradeRecheck \/ Fetch \/ Deliver

SpecSwap == InitSwap /\ [][NextSwap]_vars

(***************************************************************************)
(* Properties.                                                              *)
(***************************************************************************)
Answered(op) == resp # <<>> /\ resp[1].op = op

\* The first shift of flat with the id (the one next(...) picks).
ShiftById(flat, id) == flat[FirstIndex({i \in DOMAIN flat : flat[i].id = id})]

ListOf(schedules, p) == IF p \in DOMAIN schedules THEN schedules[p] ELSE <<>>

\* The eight checks of a simulation of (X, Y), in the order of the claim, each
\* with whether it fails.
ChecksInOrder(schedules, X, Y) ==
    LET A_sched == ListOf(schedules, X.person)
        B_sched == ListOf(schedules, Y.person)
        sB_for_A == clone_for(X.person, Y)
        sA_for_B == clone_for(Y.person, X)
        A_prime == PrimeOf(A_sched, X.id, sB_for_A)
        B_prime == PrimeOf(B_sched, Y.id, sA_for_B)
    IN  << <<"ineligible-title", ~(X.eligible /\ Y.eligible)>>,
           <<"same-person", X.person = Y.person>>,
           <<"B-not-free-for-A", ~is_free_for_interval(B_sched, X.start, X.end, Y.id)>>,
           <<"A-not-free-for-B", ~is_free_for_interval(A_sched, Y.start, Y.end, X.id)>>,
           <<"A-break-rule", ~local_break_ok(A_prime, IndexOf(A_prime, sB_for_A))>>,
           <<"B-break-rule", ~local_break_ok(B_prime, IndexOf(B_prime, sA_for_B))>>,
           <<"A-weekly-cap", ~week_caps_ok(A_prime, sB_for_A)>>,
           <<"B-weekly-cap", ~week_caps_ok(B_prime, sA_for_B)>> >>

FailingChecks(checks) == {k \in DOMAIN checks : checks[k][2]}

\* C1: a recheck of two resolved shifts answers (false, r) with r the reason
\* of the first check, in the fixed order ineligible-title, same-person,
\* B-not-free-for-A, A-not-free-for-B, A-break-rule, B-break-rule,
\* A-weekly-cap, B-weekly-cap, that fails, and (true, "ok") exactly when none
\* fails.
C1_FirstFailingCheck ==
    (Answered("recheck") /\ resp[1].status = 200) =>
        LET X == ShiftById(cache[1].flat, resp[1].req[1])
            Y == ShiftById(cache[1].flat, resp[1].req[2])
            checks == ChecksInOrder(cache[1].schedules, X, Y)
            failing == FailingChecks(checks)
        IN  /\ (resp[1].body.ok <=> resp[1].body.reason = "ok")
            /\ IF failing = {}
               THEN resp[1].body = [ok |-> TRUE, reason |-> "ok"]
               ELSE resp[1].body = [ok |-> FALSE, reason |-> checks[FirstIndex(failing)][1]]

\* A rejection by the rest rule of a swap whose weekly cap fails too.
C1_Witness ==
    /\ Answered("recheck") /\ resp[1].status = 200
    /\ resp[1].body.reason \in {"A-break-rule", "B-break-rule"}
    /\ LET X == ShiftById(cache[1].flat, resp[1].req[1])
           Y == ShiftById(cache[1].flat, resp[1].req[2])
       IN  FailingChecks(ChecksInOrder(cache[1].schedules, X, Y)) \cap {7, 8} # {}

\* C2: is_free_for_interval returns false exactly when some shift of the list
\* whose id is not exclude_id overlaps the interval as a half-open interval.
C2_FreeIffNoOverlap ==
    Answered("is_free_for_interval") =>
        LET r == resp[1].req
        IN  resp[1].body =
               ~(\E i \in DOMAIN r.person_shifts :
                    /\ r.person_shifts[i].id # r.exclude_id
                    /\ r.person_shifts[i].start < r.interval_end
                    /\ r.interval_start < r.person_shifts[i].end)

\* Free, with one shift of the list ending where the interval starts and the
\* excluded shift overlapping the interval.
C2_Witness ==
    /\ Answered("is_free_for_interval")
    /\ resp[1].body = TRUE
    /\ LET r == resp[1].req
       IN  /\ \E i \in DOMAIN r.person_shifts : r.person_shifts[i].end = r.interval_start
           /\ \E i \in DOMAIN r.person_shifts :
                 /\ r.person_shifts[i].id = r.exclude_id
                 /\ r.person_shifts[i].start < r.interval_end
                 /\ r.interval_start < r.person_shifts[i].end

\* C3: local_break_ok is true exactly when the gap after the predecessor, if
\* there is one, is at least the predecessor's duration and the gap before
\* the successor, if there is one, is at least the shift's own duration.
C3_LocalBreak ==
    Answered("local_break_ok") =>
        LET l == resp[1].req.sorted_shifts
            idx == resp[1].req.idx
        IN  resp[1].body =
               (/\ (idx = 1 \/ l[idx].start - l[idx - 1].end >= l[idx - 1].end - l[idx - 1].start)
                /\ (idx = Len(l) \/ l[idx + 1].start - l[idx].end >= l[idx].end - l[idx].start))

\* Passing with a gap before the successor equal to the shift's duration, in
\* a list that holds a third shift.
C3_Witness ==
    /\ Answered("local_break_ok")
    /\ resp[1].body = TRUE
    /\ LET l == resp[1].req.sorted_shifts
           idx == resp[1].req.idx
       IN  /\ Len(l) >= 3
           /\ idx < Len(l)
           /\ l[idx + 1].start - l[idx].end = l[idx].end - l[idx].start

\* The offset in force at a wall-clock reading of the zone.
OffsetAtWall(wall) == IF wall - EdtOffset < DstEnd THEN EdtOffset ELSE EstOffset

\* Monday 00:00 of the zone at or before an instant, and the Monday after it.
MondayBefore(t) ==
    LET wall == t + UtcOffset(t)
        monday == ((wall \div Day) - ((wall \div Day) % 7)) * Day
    IN  monday - OffsetAtWall(monday)

MondayAfter(t) ==
    LET wall == t + UtcOffset(t)
        monday == ((wall \div Day) - ((wall \div Day) % 7) + 7) * Day
    IN  monday - OffsetAtWall(monday)

\* The seconds worked by the shifts of a list that start in [from, to).
RECURSIVE SecondsStartingIn(_, _, _)
SecondsStartingIn(list, from, to) ==
    IF list = <<>> THEN 0
    ELSE (IF from <= Head(list).start /\ Head(list).start < to
          THEN Head(list).end - Head(list).start ELSE 0)
         + SecondsStartingIn(Tail(list), from, to)

\* C4: the weekly-cap check passes exactly when the shifts of the schedule
\* that start in the week of the inserted shift, from Monday 00:00 of the
\* zone to the next, total at most 60 hours.
C4_WeeklyCap ==
    Answered("week_caps_ok") =>
        LET r == resp[1].req
        IN  resp[1].body =
               (SecondsStartingIn(r.prime_sched, MondayBefore(r.new_shift.start),
                                  MondayAfter(r.new_shift.start)) <= 60 * Hour)

\* C5: a trade request served from the cached dataset leaves the dataset as
\* it was: the same owners, the same lists in the same order, the same shifts.
C5_NoMutation ==
    [][(cache # <<>> /\ resp = <<>> /\ resp' # <<>> /\ resp'[1].op \in {"recheck", "options"})
          => cache' = cache]_vars

\* A recheck that simulated a swap to the end, on a filled cache.
C5_Witness ==
    /\ Answered("recheck") /\ resp[1].status = 200
    /\ resp[1].body.ok
    /\ cache # <<>>

CandidateOf(sB) == [tradee_person |-> sB.person, tradee_shift |-> ShiftView(sB), reason |-> "ok"]

\* C6: the candidates are exactly the shifts of flat, each once, that the
\* trader does not own and whose simulated swap with the trader shift is
\* (true, "ok").
C6_Candidates ==
    (Answered("options") /\ resp[1].status = 200) =>
        LET flat == cache[1].flat
            trader_person == resp[1].req[1]
            T == flat[FirstIndex({i \in DOMAIN flat :
                        flat[i].id = resp[1].req[2] /\ flat[i].person = trader_person})]
            pass == {i \in DOMAIN flat :
                        /\ flat[i].person # trader_person
                        /\ simulate_swap_ok(cache[1].schedules, T, flat[i]).ok
                        /\ simulate_swap_ok(cache[1].schedules, T, flat[i]).reason = "ok"}
            cands == resp[1].body.candidates
        IN  /\ Len(cands) = Cardinality(pass)
            /\ \A k \in DOMAIN cands :
                  /\ cands[k].reason = "ok"
                  /\ cands[k].tradee_person # trader_person
                  /\ \E i \in pass : cands[k] = CandidateOf(flat[i])
            /\ \A i \in pass :
                  Cardinality({k \in DOMAIN cands : cands[k] = CandidateOf(flat[i])})
                     = Cardinality({j \in pass : CandidateOf(flat[j]) = CandidateOf(flat[i])})

\* One candidate kept while another shift of another owner was rejected.
C6_Witness ==
    /\ Answered("options") /\ resp[1].status = 200
    /\ Len(resp[1].body.candidates) = 1
    /\ Cardinality({i \in DOMAIN cache[1].flat : cache[1].flat[i].person # resp[1].req[1]}) = 2

\* The instant a start text of a response denotes.
InstantOf(text) == text.wall + text.off * Hour

\* C7: consecutive candidates are in ascending order of (start instant,
\* counter-party).
C7_OrderedByInstant ==
    (Answered("options") /\ resp[1].status = 200) =>
        LET cands == resp[1].body.candidates
        IN  \A k \in 1..(Len(cands) - 1) :
               \/ InstantOf(cands[k].tradee_shift.start) < InstantOf(cands[k + 1].tradee_shift.start)
               \/ /\ InstantOf(cands[k].tradee_shift.start) = InstantOf(cands[k + 1].tradee_shift.start)
                  /\ NameRank(cands[k].tradee_person) <= NameRank(cands[k + 1].tradee_person)

Category(reason) ==
    IF reason \in {"B-not-free-for-A", "A-not-free-for-B"} THEN "not-free"
    ELSE IF reason \in {"A-break-rule", "B-break-rule"} THEN "break-rule"
    ELSE IF reason \in {"A-weekly-cap", "B-weekly-cap"} THEN "weekly-cap"
    ELSE reason

\* C8: the simulation of (Y, X) gives the ok and the reason category of the
\* simulation of (X, Y).
C8_Symmetric ==
    (Answered("recheck") /\ resp[1].status = 200) =>
        LET X == ShiftById(cache[1].flat, resp[1].req[1])
            Y == ShiftById(cache[1].flat, resp[1].req[2])
            back == simulate_swap_ok(cache[1].schedules, Y, X)
        IN  /\ resp[1].body.ok = back.ok
            /\ Category(resp[1].body.reason) = Category(back.reason)

\* A rejection on B's side of the rest rule, which the exchanged call reports
\* on A's side.
C8_Witness ==
    /\ Answered("recheck") /\ resp[1].status = 200
    /\ resp[1].body.reason = "B-break-rule"
    /\ LET X == ShiftById(cache[1].flat, resp[1].req[1])
           Y == ShiftById(cache[1].flat, resp[1].req[2])
       IN  simulate_swap_ok(cache[1].schedules, Y, X).reason = "A-break-rule"

\* C9 as stated: the simulation of a shift with itself is always
\* (false, "same-person").
C9_AlwaysSamePerson ==
    (Answered("recheck") /\ resp[1].status = 200 /\ resp[1].req[1] = resp[1].req[2]) =>
        resp[1].body = [ok |-> FALSE, reason |-> "same-person"]

\* C9, amended: the simulation of a shift with itself always fails, with
\* "same-person" when the shift is eligible and with "ineligible-title" when
\* it is not.
C9_SameShiftFails ==
    (Answered("recheck") /\ resp[1].status = 200 /\ resp[1].req[1] = resp[1].req[2]) =>
        LET s == ShiftById(cache[1].flat, resp[1].req[1])
        IN  resp[1].body = [ok |-> FALSE,
                            reason |-> IF s.eligible THEN "same-person" ELSE "ineligible-title"]

\* An eligible shift rechecked against itself, its owner holding another one.
C9_Witness ==
    /\ Answered("recheck") /\ resp[1].status = 200
    /\ resp[1].req[1] = resp[1].req[2]
    /\ resp[1].body.reason = "same-person"
    /\ Len(cache[1].schedules[resp[1].req[1][1]]) >= 2

NoOwnedMatch(flat, person, id) ==
    ~(\E i \in DOMAIN flat : flat[i].id = id /\ flat[i].person = person)

\* C10 as stated: a request whose id and owner match no shift of the current
\* dataset is answered 404.
C10_AlwaysNotFound ==
    Answered("options") =>
        (NoOwnedMatch(CurrentFlat, resp[1].req[1], resp[1].req[2]) => resp[1].status = 404)

\* C10, amended: a request that gives both fields and matches no shift of
\* the dataset by id and owner is answered 404 without candidates; a request
\* that lacks a field is answered 400; a 200 answer carries as trader shift
\* a shift of the dataset with the id and the owner asked for.
C10_NotFound ==
    Answered("options") =>
        LET person == resp[1].req[1]
            id == resp[1].req[2]
            missing == person = "" \/ id = NoId
        IN  /\ missing => (resp[1].status = 400 /\ DOMAIN resp[1].body = {"error"})
            /\ (~missing /\ NoOwnedMatch(cache[1].flat, person, id))
                  => (resp[1].status = 404 /\ DOMAIN resp[1].body = {"error"})
            /\ resp[1].status = 200 =>
                  /\ ~NoOwnedMatch(cache[1].flat, person, id)
                  /\ resp[1].body.trader_shift.id = id
                  /\ resp[1].body.trader_shift.person = person

\* A 404 for an id that is in the dataset, asked with another owner's name.
C10_Witness ==
    /\ Answered("options") /\ resp[1].status = 404
    /\ \E i \in DOMAIN cache[1].flat : cache[1].flat[i].id = resp[1].req[2]
    /\ resp[1].req[1] \in Names

Resolves(flat, id) == \E i \in DOMAIN flat : flat[i].id = id

\* C11 as stated: a recheck answers not-found exactly when one of the two
\* ids it was sent resolves to no shift of the current dataset.
C11_NotFoundIff ==
    Answered("recheck") =>
        ((resp[1].status = 404 /\ resp[1].body = [ok |-> FALSE, reason |-> "not-found"])
            <=> (~Resolves(CurrentFlat, resp[1].req[1]) \/ ~Resolves(CurrentFlat, resp[1].req[2])))

\* C11, amended: a recheck that lacks an id is answered 400 with an error;
\* one that gives both ids is answered 404 (false, "not-found") exactly when
\* one of them resolves to no shift of the dataset, and otherwise 200 with
\* the ok and the reason of the simulation of the first shifts of the dataset
\* that carry the two ids.
C11_Recheck ==
    Answered("recheck") =>
        LET idA == resp[1].req[1]
            idB == resp[1].req[2]
        IN  IF idA = NoId \/ idB = NoId
            THEN resp[1].status = 400 /\ DOMAIN resp[1].body = {"error"}
            ELSE IF ~Resolves(cache[1].flat, idA) \/ ~Resolves(cache[1].flat, idB)
            THEN resp[1].status = 404 /\ resp[1].body = [ok |-> FALSE, reason |-> "not-found"]
            ELSE /\ resp[1].status = 200
                 /\ resp[1].body.reason # "not-found"
                 /\ resp[1].body =
                       [ok |-> simulate_swap_ok(cache[1].schedules, ShiftById(cache[1].flat, idA),
                                                ShiftById(cache[1].flat, idB)).ok,
                        reason |-> simulate_swap_ok(cache[1].schedules, ShiftById(cache[1].flat, idA),
                                                    ShiftById(cache[1].flat, idB)).reason]

\* A not-found answer to a first id of the dataset and a second id that the
\* dataset does not hold.
C11_Witness ==
    /\ Answered("recheck") /\ resp[1].status = 404
    /\ resp[1].body.reason = "not-found"
    /\ Resolves(cache[1].flat, resp[1].req[1])
    /\ resp[1].req[2] = StaleId

\* A source whose fetch or parse fails.
SourceFails(src) == src.status # 200 \/ ~src.ical

\* The list holds the shift.
Holds(list, s) == \E i \in DOMAIN list : list[i] = s

\* C12: when a calendar source fails to fetch or parse, the build still
\* returns a result, and the result holds the shifts of every other source.
C12_BadSourceSkipped ==
    (Answered("normalize_shifts") /\ \E bad \in Names : SourceFails(calendars[bad])) =>
        /\ resp[1].body.raised = ""
        /\ \A name \in Names :
              (~SourceFails(calendars[name]) /\ FeedRaises(calendars[name].events) = "") =>
                  LET kept == FeedShifts(name, calendars[name].events, resp[1].req.start_cutoff)
                  IN  \A i \in DOMAIN kept : Holds(resp[1].body.flat, kept[i])

\* C13: an event with a start and no end is kept as a shift that ends one
\* hour after its start, and the build is not aborted.
C13_OneHourDefault ==
    (Answered("normalize_shifts") /\ \A name \in Names : ~SourceFails(calendars[name])) =>
        \A name \in Names : \A i \in DOMAIN calendars[name].events :
            LET ev == calendars[name].events[i]
            IN  ("dtstart" \in DOMAIN ev /\ "dtend" \notin DOMAIN ev
                    /\ to_eastern(ev.dtstart) >= resp[1].req.start_cutoff) =>
                   /\ resp[1].body.raised = ""
                   /\ \E k \in DOMAIN resp[1].body.flat :
                         /\ resp[1].body.flat[k].person = name
                         /\ resp[1].body.flat[k].start = to_eastern(ev.dtstart)
                         /\ resp[1].body.flat[k].end = to_eastern(ev.dtstart) + Hour

\* The events of the sources that carry both a start and an end.
TimedEvents(name) ==
    {i \in DOMAIN calendars[name].events :
        {"dtstart", "dtend"} \subseteq DOMAIN calendars[name].events[i]}

\* C14: every shift of the flat list and of every per-person list has
\* end > start and start >= cutoff; an event with end <= start or with
\* start < cutoff is in none of the lists; an event with end > start that
\* starts at the cutoff is in the flat list and in its owner's list.
C14_KeptShifts ==
    (Answered("normalize_shifts") /\ resp[1].body.raised = "") =>
        LET cutoff == resp[1].req.start_cutoff
            flat == resp[1].body.flat
            schedules == resp[1].body.schedules
        IN  /\ \A k \in DOMAIN flat : flat[k].end > flat[k].start /\ flat[k].start >= cutoff
            /\ \A p \in DOMAIN schedules : \A k \in DOMAIN schedules[p] :
                  schedules[p][k].end > schedules[p][k].start /\ schedules[p][k].start >= cutoff
            /\ \A name \in Names : \A i \in TimedEvents(name) :
                  LET ev == calendars[name].events[i]
                      dropped == to_eastern(ev.dtend) <= to_eastern(ev.dtstart)
                                    \/ to_eastern(ev.dtstart) < cutoff
                  IN  /\ dropped =>
                            /\ ~Holds(flat, MakeShift(name, ev))
                            /\ \A p \in DOMAIN schedules : ~Holds(schedules[p], MakeShift(name, ev))
                      /\ (to_eastern(ev.dtend) > to_eastern(ev.dtstart)
                             /\ to_eastern(ev.dtstart) = cutoff) =>
                            /\ Holds(flat, MakeShift(name, ev))
                            /\ name \in DOMAIN schedules
                            /\ Holds(schedules[name], MakeShift(name, ev))

\* A build that kept a shift starting at the cutoff and dropped an event in
\* the past and an event of no length.
C14_Witness ==
    /\ Answered("normalize_shifts")
    /\ resp[1].body.raised = ""
    /\ \E k \in DOMAIN resp[1].body.flat :
          resp[1].body.flat[k].start = resp[1].req.start_cutoff
    /\ \E name \in Names : \E i \in TimedEvents(name) :
          to_eastern(calendars[name].events[i].dtstart) < resp[1].req.start_cutoff
    /\ \E name \in Names : \E i \in TimedEvents(name) :
          to_eastern(calendars[name].events[i].dtend) <= to_eastern(calendars[name].events[i].dtstart)

\* C15 as stated: every per-person list is strictly ascending by start.
C15_StrictlyAscending ==
    (Answered("normalize_shifts") /\ resp[1].body.raised = "") =>
        \A p \in DOMAIN resp[1].body.schedules :
            \A k \in 1..(Len(resp[1].body.schedules[p]) - 1) :
                resp[1].body.schedules[p][k].start < resp[1].body.schedules[p][k + 1].start

\* The retained events of the person's feed that start in the given minute.
RetainedAt(p, cutoff, start) ==
    {i \in TimedEvents(p) :
        /\ to_eastern(calendars[p].events[i].dtstart) = start
        /\ to_eastern(calendars[p].events[i].dtend) > start
        /\ start >= cutoff}

\* C15, amended: every per-person list is ascending by start, holds the
\* person's shifts of the flat list and no others, and two consecutive
\* entries have the same start only when the person's feed has two retained
\* events that start in the same minute.
C15_Ascending ==
    (Answered("normalize_shifts") /\ resp[1].body.raised = "") =>
        \A p \in DOMAIN resp[1].body.schedules :
            LET list == resp[1].body.schedules[p]
            IN  /\ Len(list) = Len(SelectPerson(resp[1].body.flat, p))
                /\ \A k \in DOMAIN list : Holds(resp[1].body.flat, list[k]) /\ list[k].person = p
                /\ \A k \in 1..(Len(list) - 1) :
                      /\ list[k].start <= list[k + 1].start
                      /\ list[k].start = list[k + 1].start =>
                            Cardinality(RetainedAt(p, resp[1].req.start_cutoff, list[k].start)) >= 2

\* A list of three shifts the sort reordered, two of them with the same start.
C15_Witness ==
    /\ Answered("normalize_shifts")
    /\ resp[1].body.raised = ""
    /\ \E p \in DOMAIN resp[1].body.schedules :
          /\ Len(resp[1].body.schedules[p]) = 3
          /\ resp[1].body.schedules[p] # SelectPerson(resp[1].body.flat, p)
          /\ resp[1].body.schedules[p][2].start = resp[1].body.schedules[p][3].start

\* What the classifier is to answer for a title.
Classified(title) ==
    CASE title = "" -> FALSE
      [] title # "" /\ ExcludeMatches(title) -> FALSE
      [] OTHER -> AllowMatches(title)

\* C17: is_eligible_title answers false for an empty or missing title, false
\* when an exclude pattern matches whatever the allow patterns say, and
\* otherwise true exactly when an allow pattern matches; the builder marks
\* every shift with that answer for its title.
C17_Eligible ==
    /\ Answered("is_eligible_title") => resp[1].body = Classified(resp[1].req.title)
    /\ (Answered("normalize_shifts") /\ resp[1].body.raised = "") =>
          \A k \in DOMAIN resp[1].body.flat :
              resp[1].body.flat[k].eligible = Classified(resp[1].body.flat[k].title)

\* A title that an exclude pattern and an allow pattern both match is refused.
C17_Witness ==
    /\ Answered("is_eligible_title")
    /\ ExcludeMatches(resp[1].req.title)
    /\ AllowMatches(resp[1].req.title)
    /\ resp[1].body = FALSE

\* C16: the triple a call of load_data_cached returns is the result of one
\* run of normalize_shifts, whatever the other calls do meanwhile.
C16_OneSnapshot ==
    \A th \in Threads : calls[th].pc = "done" => calls[th].result \in passes

\* C18: every candidate the search returns carries the advisory of the swap,
\* the two flags recipientOnOffRun and giverOnOffRun.
C18_Advisory ==
    (Answered("options") /\ resp[1].status = 200) =>
        \A k \in DOMAIN resp[1].body.candidates :
            /\ "advisory" \in DOMAIN resp[1].body.candidates[k]
            /\ DOMAIN resp[1].body.candidates[k].advisory = {"recipientOnOffRun", "giverOnOffRun"}
            /\ resp[1].body.candidates[k].advisory.recipientOnOffRun \in BOOLEAN
            /\ resp[1].body.candidates[k].advisory.giverOnOffRun \in BOOLEAN

\* The answer to the same search asked again and served by the snapshot the
\* cache holds after the first answer (no feed is fetched).
AskedAgain ==
    trade_options(cache, cache[1].ts, SeenCals(<<>>), resp[1].req[1], resp[1].req[2])

\* C19: the candidate search asked a second time for the same trader shift
\* on the same snapshot answers the same candidates in the same order, and
\* leaves the snapshot as the first search left it.
C19_SameAnswer ==
    (Answered("options") /\ resp[1].status = 200) =>
        /\ cache # <<>>
        /\ (now - cache[1].ts) < _CACHE_TTL_SECONDS
        /\ AskedAgain.resp.status = 200
        /\ AskedAgain.resp.body.candidates = resp[1].body.candidates
        /\ AskedAgain.cache = cache

\* A search that returned two candidates or more.
C19_Witness ==
    /\ Answered("options")
    /\ resp[1].status = 200
    /\ Len(resp[1].body.candidates) >= 2
    /\ resp[1].body.candidates[1].tradee_person # resp[1].body.candidates[2].tradee_person

\* The number of entries of the list equal to the shift.
CountOf(list, s) == Cardinality({i \in DOMAIN list : list[i] = s})

\* The post-swap list is the owner's list with one entry, the shift given
\* away, taken out and the clone of the shift received put in: the same
\* length, every other shift as often as before, the shift given away once
\* less (unless the clone is its equal), the clone once more.
SwappedOne(prime, sched, given, received, owner) ==
    LET clone == clone_for(owner, received)
        Expected(x) == CountOf(sched, x) - (IF x = given THEN 1 ELSE 0)
                                         + (IF x = clone THEN 1 ELSE 0)
    IN  /\ Len(prime) = Len(sched)
        /\ \A i \in DOMAIN sched : CountOf(prime, sched[i]) = Expected(sched[i])
        /\ CountOf(prime, clone) = Expected(clone)
        /\ clone.start = received.start /\ clone.end = received.end
        /\ clone.title = received.title /\ clone.eligible = received.eligible
        /\ clone.person = owner
        /\ clone.id # received.id

\* The recheck ran the simulation past the availability checks.
ReachedStepFive ==
    /\ Answered("recheck")
    /\ resp[1].status = 200
    /\ resp[1].body.reason \notin {"ineligible-title", "same-person",
                                  "B-not-free-for-A", "A-not-free-for-B"}

\* C20: in a simulation that builds the post-swap schedules, A' is A's
\* schedule with shiftA removed and the clone of shiftB added, and B' is B's
\* schedule with shiftB removed and the clone of shiftA added, also when the
\* schedule holds a second event with the owner, start, end and title of the
\* shift given away.
C20_OneOutOneIn ==
    ReachedStepFive =>
        LET sA == ShiftById(cache[1].flat, resp[1].req[1])
            sB == ShiftById(cache[1].flat, resp[1].req[2])
            A_sched == cache[1].schedules[sA.person]
            B_sched == cache[1].schedules[sB.person]
        IN  /\ SwappedOne(PrimeOf(A_sched, sA.id, clone_for(sA.person, sB)),
                          A_sched, sA, sB, sA.person)
            /\ SwappedOne(PrimeOf(B_sched, sB.id, clone_for(sB.person, sA)),
                          B_sched, sB, sA, sB.person)

\* The thread takes a step of its call of load_data_cached.
StepOf(th) == calls'[th] # calls[th]

\* C21: under any interleaving of the calls, a call that returns from the
\* cache reads each component it returns from a snapshot whose age, the
\* time at the start of the call minus the snapshot's timestamp, is below
\* 120 seconds; a call that rebuilds stores the result of its run of
\* normalize_shifts under the time at the start of the call.  No snapshot
\* aged 120 seconds or more is returned.
C21_FreshOrRebuilt ==
    [][\A th \in Threads :
          /\ (StepOf(th) /\ calls[th].pc \in {"read_people", "read_flat", "read_schedules"}) =>
                (cache # <<>> /\ (calls[th].now - cache[1].ts) < _CACHE_TTL_SECONDS)
          /\ (StepOf(th) /\ calls[th].pc = "store") =>
                /\ calls[th].result \in passes
                /\ cache' = <<[ts |-> calls[th].now] @@ calls[th].result>>
      ]_vars

\* C25: whatever the interleaving of the calls, the timestamp of the cached
\* snapshot never decreases: a refresh that began earlier does not replace
\* the snapshot of a refresh that began later.
C25_TsNeverDecreases ==
    [][(cache # <<>> /\ cache' # <<>>) => cache'[1].ts >= cache[1].ts]_vars

\* C26: under any interleaving of the calls, a call whose run of
\* normalize_shifts raises never writes the cache: the only step of a call
\* that changes the cache is its store, a call that stores ends with its
\* triple, and a call ends with the exception only from a fetch, holding
\* the exception and no data.  What the cache holds after the failure is
\* what it held before or what another call stored, never a half-built
\* snapshot or a timestamp of the failing call.
C26_FailedRebuild ==
    [][\A th \in Threads :
          /\ (StepOf(th) /\ calls[th].pc # "store") => cache' = cache
          /\ (StepOf(th) /\ calls[th].pc = "store") => calls'[th].pc = "done"
          /\ (StepOf(th) /\ calls[th].pc = "done") => calls'[th].pc = "idle"
          /\ (StepOf(th) /\ calls'[th].pc = "raised") =>
                /\ calls[th].pc = "fetch"
                /\ calls'[th].raised # ""
                /\ "result" \notin DOMAIN calls'[th]
      ]_vars

\* A call that found an expired snapshot and whose rebuild raised while the
\* other thread was inside a call of its own, seen after the clock had
\* moved on.
C26_Witness ==
    \E th \in Threads :
        /\ calls[th].pc = "raised"
        /\ calls[th].before # <<>>
        /\ (calls[th].now - calls[th].before[1].ts) >= _CACHE_TTL_SECONDS
        /\ now > calls[th].now
        /\ \E other \in Threads \ {th} : calls[other].pc \notin {"idle", "raised"}

\* The recheck answered that the swap is legal.
SwapOk == Answered("recheck") /\ resp[1].status = 200 /\ resp[1].body = [ok |-> TRUE, reason |-> "ok"]

\* The two shifts of the recheck, and the schedules of their owners before
\* and after the swap.
SwapGiven == ShiftById(cache[1].flat, resp[1].req[1])

SwapTaken == ShiftById(cache[1].flat, resp[1].req[2])

ScheduleBefore(s) == cache[1].schedules[s.person]

ScheduleAfter(given, received) ==
    PrimeOf(ScheduleBefore(given), given.id, clone_for(given.person, received))

\* No two entries of the list overlap (half-open intervals).
OverlapFree(list) ==
    \A i \in DOMAIN list : \A j \in DOMAIN list :
        i # j => ~(list[i].start < list[j].end /\ list[j].start < list[i].end)

\* The clone overlaps no other entry of the list.
CloneOverlapsNone(list, clone) ==
    \E k \in DOMAIN list :
        /\ list[k] = clone
        /\ \A j \in DOMAIN list :
              j # k => ~(list[j].start < clone.end /\ clone.start < list[j].end)

\* C24: after a swap found legal, the clone put into A' overlaps no other
\* shift of A', and likewise in B'; schedules that were free of overlaps
\* before the swap are free of overlaps after it.
C24_NoIntroducedOverlap ==
    SwapOk =>
        /\ CloneOverlapsNone(ScheduleAfter(SwapGiven, SwapTaken),
                             clone_for(SwapGiven.person, SwapTaken))
        /\ CloneOverlapsNone(ScheduleAfter(SwapTaken, SwapGiven),
                             clone_for(SwapTaken.person, SwapGiven))
        /\ (OverlapFree(ScheduleBefore(SwapGiven)) /\ OverlapFree(ScheduleBefore(SwapTaken))) =>
              /\ OverlapFree(ScheduleAfter(SwapGiven, SwapTaken))
              /\ OverlapFree(ScheduleAfter(SwapTaken, SwapGiven))

\* A legal swap into a schedule of two or more that had no overlap.
C24_Witness ==
    /\ SwapOk
    /\ Len(ScheduleAfter(SwapGiven, SwapTaken)) >= 2
    /\ OverlapFree(ScheduleBefore(SwapGiven))
    /\ OverlapFree(ScheduleBefore(SwapTaken))
    /\ SwapTaken.start # SwapGiven.start

\* Every pair of consecutive shifts of the list keeps the rest rule: the
\* gap to the next shift is at least the duration of the shift.
RestKept(list) ==
    \A k \in 1..(Len(list) - 1) :
        list[k + 1].start - list[k].end >= list[k].end - list[k].start

\* C22: if every pair of consecutive shifts of A and of B keeps the rest
\* rule before the swap and the swap is found legal, every pair of
\* consecutive shifts of A' and of B' keeps it.
C22_RestPreserved ==
    (SwapOk /\ RestKept(ScheduleBefore(SwapGiven)) /\ RestKept(ScheduleBefore(SwapTaken))) =>
        /\ RestKept(ScheduleAfter(SwapGiven, SwapTaken))
        /\ RestKept(ScheduleAfter(SwapTaken, SwapGiven))

\* A legal swap that puts the clone between two shifts of a schedule that
\* kept the rule, the shift given away having stood elsewhere.
C22_Witness ==
    /\ SwapOk
    /\ RestKept(ScheduleBefore(SwapGiven))
    /\ RestKept(ScheduleBefore(SwapTaken))
    /\ Len(ScheduleAfter(SwapGiven, SwapTaken)) = 3
    /\ ScheduleAfter(SwapGiven, SwapTaken)[2] = clone_for(SwapGiven.person, SwapTaken)
    /\ ScheduleBefore(SwapGiven)[2] # SwapGiven

\* Every week of the list, from Monday 00:00 of the zone to the next, holds
\* at most 60 hours of shifts that start in it.
WeeksWithinCap(list) ==
    \A k \in DOMAIN list :
        SecondsStartingIn(list, MondayBefore(list[k].start), MondayAfter(list[k].start))
            <= CapHours * Hour

\* C23: if every week of A and of B totals at most 60 hours before the swap
\* and the swap is found legal, every week of A' and of B' totals at most
\* 60 hours.
C23_CapPreserved ==
    (SwapOk /\ WeeksWithinCap(ScheduleBefore(SwapGiven)) /\ WeeksWithinCap(ScheduleBefore(SwapTaken))) =>
        /\ WeeksWithinCap(ScheduleAfter(SwapGiven, SwapTaken))
        /\ WeeksWithinCap(ScheduleAfter(SwapTaken, SwapGiven))

\* The answer to a recheck of the trader shift against the candidate, asked
\* on the snapshot the search left in the cache.
RecheckOf(cand) ==
    trade_recheck(cache, cache[1].ts, SeenCals(<<>>),
                  resp[1].body.trader_shift.id, cand.tradee_shift.id).resp

\* C27: every candidate trade_options returns for a trader shift is found
\* legal by trade_recheck on the same snapshot, and a trader shift that is
\* not eligible has no candidates.
C27_SearchAgreesWithRecheck ==
    (Answered("options") /\ resp[1].status = 200) =>
        /\ \A k \in DOMAIN resp[1].body.candidates :
              /\ RecheckOf(resp[1].body.candidates[k]).status = 200
              /\ RecheckOf(resp[1].body.candidates[k]).body = [ok |-> TRUE, reason |-> "ok"]
        /\ ~resp[1].body.trader_shift.eligible => resp[1].body.candidates = <<>>

\* A search that returned candidates of two owners.
C27_Witness ==
    /\ Answered("options")
    /\ resp[1].status = 200
    /\ resp[1].body.trader_shift.eligible
    /\ \E k \in DOMAIN resp[1].body.candidates : \E j \in DOMAIN resp[1].body.candidates :
          resp[1].body.candidates[k].tradee_person # resp[1].body.candidates[j].tradee_person

=============================================================================
